---- MODULE Spec2Model ----
(***************************************************************************)
(* Model of the upgrade helper (upgrade, getUpgradeVersion,                *)
(* getPackagePeerDep, outputDependencies) and of the upgrade command       *)
(* (upgradeAction) of nextui-cli.                                          *)
(*                                                                         *)
(* Strings that are versions are sequences of tokens: a range operator     *)
(* ("^", "~", ">="), a highlight mark ("[", "]") or a numeral that stands  *)
(* for the whole dotted number x.y.z (its rank in semantic-version order). *)
(* Objects that the code mutates or shares (the UpgradeOption objects)     *)
(* live in `heap` and lists hold their addresses.                          *)
(***************************************************************************)
EXTENDS Integers, Sequences, FiniteSets, TLC

VARIABLES
    pc,                \* position of upgrade()
    caller,            \* who called upgrade(): "direct" | "upgradeAction" | "none"
    isNextUIAll,       \* options.isNextUIAll
    allDependencies,   \* options.allDependencies: package -> version string
    store,             \* src/constants/store: latestVersion, nextUIComponentsMap
    upgradeOptionList, \* options.upgradeOptionList: addresses of the caller's objects
    heap,              \* every UpgradeOption object: address -> fields
    tasks,             \* the getPackagePeerDep calls of this upgrade(), in call order
    settleOrder,       \* indices of tasks in the order their lookups completed
    outputList,        \* upgrade's local outputList (addresses)
    peerDepList,       \* upgrade's local peerDepList (addresses)
    report,            \* the boxes handed to outputBox, in order
    result,            \* upgrade's return value (addresses)
    apc,               \* position of upgradeAction() / of a direct getUpgradeVersion call
    packageInfo,       \* getPackageInfo(): currentComponents of package.json
    args,              \* upgradeAction's arguments: components, options.all
    isExecute,         \* answer to 'Would you like to proceed with the upgrade?'
    isNeedRemove,      \* answer to 'Do you want to ignore some package to upgrade?'
    ignoreList,        \* answer to 'Which components do you want to ignore?'
    installLog         \* the install commands handed to exec, in order

vars == <<pc, caller, isNextUIAll, allDependencies, store, upgradeOptionList, heap,
          tasks, settleOrder, outputList, peerDepList, report, result, apc,
          packageInfo, args, isExecute, isNeedRemove, ignoreList, installLog>>

upgradeVars == <<pc, isNextUIAll, allDependencies, store, upgradeOptionList, heap,
                 tasks, settleOrder, outputList, peerDepList, report, result>>

actionVars == <<apc, packageInfo, args, isExecute, isNeedRemove, ignoreList, installLog>>

(***************************************************************************)
(* Bounds of the model.                                                    *)
(***************************************************************************)
\* Version numbers are the ranks 1..MaxVer.
MaxVer == 2
\* The caller's upgradeOptionList holds at most MaxList candidates.
MaxList == 2
\* A version string handed to getUpgradeVersion directly starts with at most
\* MaxPrefix range-prefix characters.
MaxPrefix == 3

(***************************************************************************)
(* Names.                                                                  *)
(***************************************************************************)
NEXT_UI == "@nextui-org/react"
THEME_UI == "@nextui-org/theme"

\* Component packages the caller may list, in a fixed order.
ComponentPackages == <<"@nextui-org/button", "@nextui-org/input", "@nextui-org/card">>
ComponentNames == <<"button", "input", "card">>
\* Packages that occur as peer dependencies.
PeerNames == {"react", "framer-motion"}

\* The numerals, by rank.
Numerals == <<"1", "2", "3", "4", "5">>
Num(n) == Numerals[n]
RankOf(t) == CHOOSE n \in 1..Len(Numerals) : Numerals[n] = t

RangePrefixChars == {"^", "~"}
RangeOperators == {"^", "~", ">="}
ColorMarks == {"[", "]"}

Range(s) == {s[i] : i \in 1..Len(s)}
NoDuplicates(s) == \A i, j \in 1..Len(s) : i # j => s[i] # s[j]

RECURSIVE Flat(_)
\* Array.prototype.flat() of an array of arrays.
Flat(ss) == IF ss = <<>> THEN <<>> ELSE Head(ss) \o Flat(Tail(ss))

(***************************************************************************)
(* Version strings.                                                        *)
(***************************************************************************)
RECURSIVE LeadingCount(_, _)
\* Number of leading tokens of s that are in set.
LeadingCount(s, set) ==
    IF s = <<>> \/ Head(s) \notin set THEN 0 ELSE 1 + LeadingCount(Tail(s), set)

\* String.prototype.replace(ch, '') with a string pattern: only the first
\* occurrence of ch is removed.
ReplaceFirst(s, ch) ==
    IF \E i \in 1..Len(s) : s[i] = ch
    THEN LET k == CHOOSE i \in 1..Len(s) : s[i] = ch /\ \A j \in 1..(i - 1) : s[j] # ch
         IN  SubSeq(s, 1, k - 1) \o SubSeq(s, k + 1, Len(s))
    ELSE s

\* The bare number of a version string: what is left without range operators
\* and highlight marks.
Bare(s) == SelectSeq(s, LAMBDA t : t \notin RangeOperators /\ t \notin ColorMarks)

\* transformPeerVersion: a declared range collapses to its concrete version.
transformPeerVersion(range) == Bare(range)

\* compareVersions: semantic-version order of the two bare numbers.
compareVersions(a, b) ==
    LET x == RankOf(Bare(a)[1])
        y == RankOf(Bare(b)[1])
    IN  IF x < y THEN -1 ELSE IF x > y THEN 1 ELSE 0

\* getVersionAndMode: the installed entry split into bare version and mode.
getVersionAndMode(deps, name) ==
    LET entry == deps[name]
        has == \E i \in 1..Len(entry) : entry[i] \in RangePrefixChars
        first == CHOOSE i \in 1..Len(entry) :
                    entry[i] \in RangePrefixChars
                    /\ \A j \in 1..(i - 1) : entry[j] \notin RangePrefixChars
    IN  [currentVersion |-> IF has THEN ReplaceFirst(entry, entry[first]) ELSE entry,
         versionMode |-> IF has THEN <<entry[first]>> ELSE <<>>]

\* getColorVersion: the target with the differing part marked; unmarked when
\* the two versions are equal.
getColorVersion(current, target) ==
    IF Bare(current) = Bare(target) THEN target ELSE <<"[">> \o target \o <<"]">>

\* colorMatchRegex removal: the string without highlight marks.
StripColor(s) == SelectSeq(s, LAMBDA t : t \notin ColorMarks)

(***************************************************************************)
(* Objects.                                                                *)
(***************************************************************************)
NoPeerDependencies == [has |-> FALSE, map |-> <<>>]

\* An UpgradeOption object.  peerDependencies is optional: has = FALSE is the
\* absent property.
UpgradeOption(package, version, latestVersion, isLatest, versionMode, peerDependencies) ==
    [package |-> package, version |-> version, latestVersion |-> latestVersion,
     isLatest |-> isLatest, versionMode |-> versionMode,
     peerDependencies |-> peerDependencies]

\* Addresses of n objects allocated after those of h.
NewAddresses(h, n) == [i \in 1..n |-> Len(h) + i]

Packages(list, h) == [i \in 1..Len(list) |-> h[list[i]].package]

(***************************************************************************)
(* getPackagePeerDep.                                                      *)
(***************************************************************************)
\* The candidate pushed for an installed peer (lines 189-205).
PeerCandidate(entry, deps) ==
    LET currentVersion == deps[entry.name]
        versionMode == getVersionAndMode(deps, entry.name).versionMode
        declared == transformPeerVersion(entry.range)
        isLatest == compareVersions(currentVersion, declared) >= 0
        formatPeerVersion == IF isLatest THEN transformPeerVersion(currentVersion)
                             ELSE declared
    IN  UpgradeOption(entry.name, currentVersion,
                      IF isLatest THEN formatPeerVersion
                      ELSE getColorVersion(currentVersion, formatPeerVersion),
                      isLatest, versionMode, NoPeerDependencies)

\* A missing peer that is skipped without a warning.
MissingPeerSilent(st, entry) == st

\* The branch for a peer that is not installed: Logger.warn, then continue.
MissingPeer(st, entry) == [st EXCEPT !.warned = Append(@, entry.name)]

\* One iteration of the loop over Object.entries(peerDependencies).
PeerStep(st, entry, deps) ==
    IF \E k \in 1..Len(st.list) : st.list[k].package = entry.name
    THEN st
    ELSE IF entry.name \notin DOMAIN deps
         THEN MissingPeer(st, entry)
         ELSE [st EXCEPT !.list = Append(@, PeerCandidate(entry, deps))]

RECURSIVE PeerLoop(_, _, _)
\* The loop of getPackagePeerDep over the entries, first to last.
PeerLoop(st, entries, deps) ==
    IF entries = <<>> THEN st
    ELSE PeerLoop(PeerStep(st, Head(entries), deps), Tail(entries), deps)

\* getPackagePeerDep from the point where peerDependencies is known: the
\* objects it builds and the warnings it logs.
ResolvePeers(peerDependencies, deps) ==
    IF peerDependencies = <<>>
    THEN [list |-> <<>>, warned |-> <<>>]
    ELSE PeerLoop([list |-> <<>>, warned |-> <<>>], peerDependencies, deps)

\* What `npm show <pkg> peerDependencies --json` piped through JSON.parse can do.
ExecFail == [kind |-> "fail", map |-> <<>>]
ExecUnparseable == [kind |-> "unparseable", map |-> <<>>]
ExecNull == [kind |-> "null", map |-> <<>>]
ExecJson(m) == [kind |-> "json", map |-> m]
NoExec(kind) == [kind |-> kind, map |-> <<>>]

\* A getPackagePeerDep call that is suspended in `await exec(...)`.
PendingTask(packageName) ==
    [packageName |-> packageName, status |-> "pending", response |-> NoExec("none"),
     peers |-> <<>>, result |-> <<>>, warned |-> <<>>]

\* A getPackagePeerDep call that ran to its return statement with the given
\* peer map; its objects are allocated in h.
FulfilledTask(packageName, response, peers, deps, h) ==
    LET r == ResolvePeers(peers, deps)
    IN  [task |-> [packageName |-> packageName, status |-> "fulfilled",
                   response |-> response, peers |-> peers,
                   result |-> NewAddresses(h, Len(r.list)), warned |-> r.warned],
         heap |-> h \o r.list]

\* The call of getPackagePeerDep up to its first suspension: with
\* peerDependencies supplied no await is reached and the call runs to its end.
StartTask(packageName, deps, explicit, h) ==
    IF explicit.has
    THEN FulfilledTask(packageName, NoExec("explicit"), explicit.map, deps, h)
    ELSE [task |-> PendingTask(packageName), heap |-> h]

\* The continuation of a suspended call when exec settles with `response`.
ResumeTask(task, response, deps, h) ==
    IF response.kind \in {"fail", "unparseable"}
    THEN [task |-> [task EXCEPT !.status = "rejected", !.response = response],
          heap |-> h]
    ELSE FulfilledTask(task.packageName, response, response.map, deps, h)

(***************************************************************************)
(* getUpgradeVersion and outputDependencies.                               *)
(***************************************************************************)
\* The first loop of getUpgradeVersion: the version of every listed object
\* loses its first '^'.  (The column widths it also computes only pad the
\* text and are left out.)
NormalizeVersions(list, h) ==
    [a \in DOMAIN h |->
        IF a \in Range(list) THEN [h[a] EXCEPT !.version = ReplaceFirst(@, "^")]
        ELSE h[a]]

\* One rendered row.
Row(o, peer) ==
    IF o.isLatest
    THEN [package |-> o.package, left |-> o.versionMode \o o.latestVersion,
          right |-> <<>>, latest |-> TRUE]
    ELSE [package |-> o.package, left |-> o.versionMode \o o.version,
          right |-> o.versionMode \o o.latestVersion, latest |-> FALSE]

\* The second loop: one row per candidate, latest candidates left out of the
\* peer section.
Rows(list, peer, h) ==
    LET shown == SelectSeq(list, LAMBDA a : ~(h[a].isLatest /\ peer))
    IN  [i \in 1..Len(shown) |-> Row(h[shown[i]], peer)]

\* getUpgradeVersion(upgradeOptionList, peer): the heap it leaves and the
\* text it returns.
getUpgradeVersion(list, peer, h) ==
    IF list = <<>>
    THEN [heap |-> h, text |-> <<>>]
    ELSE LET h2 == NormalizeVersions(list, h)
         IN  [heap |-> h2, text |-> Rows(list, peer, h2)]

\* outputDependencies(outputList, peerDepList): the heap it leaves and the two
\* boxes it draws.
outputDependencies(outList, peerList, h) ==
    LET a == getUpgradeVersion(outList, FALSE, h)
        b == getUpgradeVersion(peerList, TRUE, a.heap)
    IN  [heap |-> b.heap,
         boxes |-> << [title |-> "Components", text |-> a.text],
                      [title |-> "PeerDependencies", text |-> b.text] >>]

(***************************************************************************)
(* Pieces of upgrade().                                                    *)
(***************************************************************************)
\* A filter that keeps every candidate.
KeepAll(list, h) == list

\* filter((c) => !c.isLatest)
StaleOnly(list, h) == SelectSeq(list, LAMBDA a : ~h[a].isLatest)

\* The umbrella result with the `if (!isLatest)` test left out.
UmbrellaResultUnguarded(isLatest, outList, peerList, h) ==
    outList \o StaleOnly(peerList, h)

\* Lines 63-67: the result of umbrella mode.
UmbrellaResult(isLatest, outList, peerList, h) ==
    IF ~isLatest THEN outList \o StaleOnly(peerList, h) ELSE <<>>

\* The candidates rewritten in place instead of copied.
TransformInPlace(list, h) ==
    [list |-> list,
     heap |-> [a \in DOMAIN h |->
                 IF a \in Range(list)
                 THEN [h[a] EXCEPT !.latestVersion = getColorVersion(h[a].version, @)]
                 ELSE h[a]]]

\* Lines 69-72: upgradeOptionList.map((c) => ({...c, latestVersion: ...})):
\* one new object per candidate.
TransformOptions(list, h) ==
    [list |-> NewAddresses(h, Len(list)),
     heap |-> h \o [i \in 1..Len(list) |->
                      [h[list[i]] EXCEPT
                         !.latestVersion = getColorVersion(h[list[i]].version, @)]]]

RECURSIVE StartAll(_, _, _, _, _)
\* Lines 75-77: the map that calls getPackagePeerDep for every candidate, in
\* list order, each call running up to its first suspension.
StartAll(list, deps, h, ts, order) ==
    IF list = <<>>
    THEN [tasks |-> ts, heap |-> h, order |-> order]
    ELSE LET o == h[Head(list)]
             s == StartTask(o.package, deps, o.peerDependencies, h)
         IN  StartAll(Tail(list), deps, s.heap, Append(ts, s.task),
                      IF s.task.status = "pending" THEN order
                      ELSE Append(order, Len(ts) + 1))

\* The values collected in the order the calls settled.
ValuesInSettleOrder(ts, order) == [k \in 1..Len(order) |-> ts[order[k]].result]

\* The array Promise.all resolves to: the values in the order of the promises.
PromiseAllValues(ts, order) == [i \in 1..Len(ts) |-> ts[i].result]

\* An aggregate that resolves as soon as one call is fulfilled.
PromiseAnyFulfilled(ts) == \E i \in 1..Len(ts) : ts[i].status = "fulfilled"

\* Promise.all resolves when every promise is fulfilled.
PromiseAllFulfilled(ts) == \A i \in 1..Len(ts) : ts[i].status = "fulfilled"

\* Promise.all rejects when a promise is rejected.
PromiseAllRejected(ts) == \E i \in 1..Len(ts) : ts[i].status = "rejected"

(***************************************************************************)
(* Inputs.                                                                 *)
(***************************************************************************)
PeerEntry(name) ==
    [name |-> name, range |-> IF name = "react" THEN <<">=", Num(2)>> ELSE <<"^", Num(2)>>]

\* Peer maps the registry may answer with, as Object.entries lists them.
RegistryPeerMaps ==
    { <<PeerEntry("react")>>, <<PeerEntry("framer-motion"), PeerEntry("react")>> }

\* Peer maps a candidate may carry itself.
ExplicitPeerMaps ==
    { <<PeerEntry("react")>>, <<PeerEntry("react"), PeerEntry("framer-motion")>> }

ExecResponses == {ExecFail, ExecUnparseable, ExecNull} \cup {ExecJson(m) : m \in RegistryPeerMaps}

InstalledVersions == {<<Num(v)>> : v \in 1..MaxVer} \cup {<<"^", Num(v)>> : v \in 1..MaxVer}
PeerInstalledVersions == {<<"^", Num(1)>>, <<"^", Num(2)>>}
LatestVersions == {<<Num(v)>> : v \in 1..MaxVer}

\* Installed-dependency maps: every subset of the peers installed, the umbrella
\* package installed or not.
DependencyMaps(withUmbrella) ==
    UNION { [S \cup (IF withUmbrella THEN {NEXT_UI} ELSE {}) ->
                PeerInstalledVersions \cup InstalledVersions] : S \in SUBSET PeerNames }

WellFormedDependencies(deps) ==
    \A p \in DOMAIN deps : p \in PeerNames => deps[p] \in PeerInstalledVersions

\* The candidates a caller may pass for the i-th component: isLatest is what
\* the caller computes with compareVersions.
PrimaryCandidates(i) ==
    { UpgradeOption(ComponentPackages[i], v, <<Num(MaxVer)>>,
                    compareVersions(v, <<Num(MaxVer)>>) >= 0,
                    getVersionAndMode([x \in {"v"} |-> v], "v").versionMode, pd) :
        v \in {<<"^", Num(1)>>, <<Num(MaxVer)>>},
        pd \in {NoPeerDependencies} \cup {[has |-> TRUE, map |-> m] : m \in ExplicitPeerMaps} }

ListLengths == 0..(IF MaxList < Len(ComponentPackages) THEN MaxList ELSE Len(ComponentPackages))

RECURSIVE PrimaryLists(_)
\* Candidate lists of length n with pairwise distinct packages.
PrimaryLists(n) ==
    IF n = 0 THEN {<<>>}
    ELSE {Append(l, c) : l \in PrimaryLists(n - 1), c \in PrimaryCandidates(n)}

IdleAction ==
    /\ apc = "none"
    /\ packageInfo = <<>>
    /\ args = [all |-> FALSE, components |-> <<>>]
    /\ isExecute = "unasked"
    /\ isNeedRemove = "unasked"
    /\ ignoreList = {}
    /\ installLog = <<>>

FreshUpgrade ==
    /\ tasks = <<>>
    /\ settleOrder = <<>>
    /\ outputList = <<>>
    /\ peerDepList = <<>>
    /\ report = <<>>
    /\ result = <<>>

\* upgrade({isNextUIAll: true, allDependencies})
InitUmbrella ==
    /\ isNextUIAll = TRUE
    /\ allDependencies \in DependencyMaps(TRUE)
    /\ WellFormedDependencies(allDependencies)
    /\ store \in {[latestVersion |-> l, nextUIComponentsMap |-> <<>>] : l \in LatestVersions}
    /\ upgradeOptionList = <<>>
    /\ heap = <<>>

\* upgrade({isNextUIAll: false, allDependencies, upgradeOptionList})
InitMulti ==
    /\ isNextUIAll = FALSE
    /\ allDependencies \in DependencyMaps(FALSE)
    /\ WellFormedDependencies(allDependencies)
    /\ store = [latestVersion |-> <<Num(MaxVer)>>, nextUIComponentsMap |-> <<>>]
    /\ \E n \in ListLengths : heap \in PrimaryLists(n)
    /\ upgradeOptionList = NewAddresses(<<>>, Len(heap))

Init ==
    /\ pc = "start"
    /\ caller = "direct"
    /\ (InitUmbrella \/ InitMulti)
    /\ FreshUpgrade
    /\ IdleAction

(***************************************************************************)
(* upgrade().                                                              *)
(***************************************************************************)
\* Lines 42-47: umbrella mode up to the first await.
upgrade_umbrella_begin ==
    /\ pc = "start"
    /\ isNextUIAll
    /\ LET s == StartTask(NEXT_UI, allDependencies, NoPeerDependencies, heap)
       IN  /\ tasks' = <<s.task>>
           /\ heap' = s.heap
    /\ pc' = "await_nextui"
    /\ UNCHANGED <<caller, isNextUIAll, allDependencies, store, upgradeOptionList,
                   settleOrder, outputList, peerDepList, report, result, actionVars>>

\* Line 48: the first lookup is back, the second is issued.
upgrade_umbrella_theme ==
    /\ pc = "await_nextui"
    /\ tasks[1].status = "fulfilled"
    /\ LET s == StartTask(THEME_UI, allDependencies, NoPeerDependencies, heap)
       IN  /\ tasks' = Append(tasks, s.task)
           /\ heap' = s.heap
    /\ pc' = "await_theme"
    /\ UNCHANGED <<caller, isNextUIAll, allDependencies, store, upgradeOptionList,
                   settleOrder, outputList, peerDepList, report, result, actionVars>>

\* Lines 43-45 and 50-67, 88: both lookups are back.
upgrade_umbrella_finish ==
    /\ pc = "await_theme"
    /\ tasks[2].status = "fulfilled"
    /\ LET vm == getVersionAndMode(allDependencies, NEXT_UI)
           colorVersion == getColorVersion(vm.currentVersion, store.latestVersion)
           isLatest == compareVersions(vm.currentVersion, store.latestVersion) >= 0
           h1 == Append(heap, UpgradeOption(NEXT_UI, vm.currentVersion, colorVersion,
                                            isLatest, vm.versionMode, NoPeerDependencies))
           outList == <<Len(h1)>>
           peerList == tasks[1].result \o tasks[2].result
           od == outputDependencies(outList, peerList, h1)
       IN  /\ outputList' = outList
           /\ peerDepList' = peerList
           /\ heap' = od.heap
           /\ report' = report \o od.boxes
           /\ result' = UmbrellaResult(isLatest, outList, peerList, od.heap)
    /\ pc' = "done"
    /\ UNCHANGED <<caller, isNextUIAll, allDependencies, store, upgradeOptionList,
                   tasks, settleOrder, actionVars>>

\* Lines 69-78: multi-component mode up to `await Promise.all(...)`.  Until
\* line 80 copies it, outputList holds transformUpgradeOptionList.
upgrade_multi_begin ==
    /\ pc = "start"
    /\ ~isNextUIAll
    /\ LET tr == TransformOptions(upgradeOptionList, heap)
           sa == StartAll(upgradeOptionList, allDependencies, tr.heap, <<>>, <<>>)
       IN  /\ outputList' = tr.list
           /\ tasks' = sa.tasks
           /\ settleOrder' = sa.order
           /\ heap' = sa.heap
    /\ pc' = "await_all"
    /\ UNCHANGED <<caller, isNextUIAll, allDependencies, store, upgradeOptionList,
                   peerDepList, report, result, actionVars>>

\* Lines 80-88: Promise.all has resolved.
upgrade_multi_finish ==
    /\ pc = "await_all"
    /\ PromiseAllFulfilled(tasks)
    /\ LET peerList == Flat(PromiseAllValues(tasks, settleOrder))
           od == outputDependencies(outputList, peerList, heap)
       IN  /\ peerDepList' = peerList
           /\ heap' = od.heap
           /\ report' = report \o od.boxes
           /\ result' = StaleOnly(outputList \o peerList, od.heap)
    /\ pc' = "done"
    /\ UNCHANGED <<caller, isNextUIAll, allDependencies, store, upgradeOptionList,
                   tasks, settleOrder, outputList, actionVars>>

\* The awaited lookup (lines 47, 48) or Promise.all (line 74) rejected:
\* upgrade() has no handler and rejects.
upgrade_reject ==
    /\ \/ pc = "await_nextui" /\ tasks[1].status = "rejected"
       \/ pc = "await_theme" /\ tasks[2].status = "rejected"
       \/ pc = "await_all" /\ PromiseAllRejected(tasks)
    /\ pc' = "threw"
    /\ UNCHANGED <<caller, isNextUIAll, allDependencies, store, upgradeOptionList, heap,
                   tasks, settleOrder, outputList, peerDepList, report, result,
                   actionVars>>

\* Lines 160-208: the exec of a suspended getPackagePeerDep call settles and
\* the call runs to its end.
exec_settle(i) ==
    /\ tasks[i].status = "pending"
    /\ \E response \in ExecResponses :
         LET r == ResumeTask(tasks[i], response, allDependencies, heap)
         IN  /\ tasks' = [tasks EXCEPT ![i] = r.task]
             /\ heap' = r.heap
    /\ settleOrder' = Append(settleOrder, i)
    /\ UNCHANGED <<pc, caller, isNextUIAll, allDependencies, store, upgradeOptionList,
                   outputList, peerDepList, report, result, actionVars>>

upgradeNext ==
    \/ upgrade_umbrella_begin
    \/ upgrade_umbrella_theme
    \/ upgrade_umbrella_finish
    \/ upgrade_multi_begin
    \/ upgrade_multi_finish
    \/ upgrade_reject
    \/ \E i \in 1..Len(tasks) : exec_settle(i)

Next == upgradeNext

Spec == Init /\ [][Next]_vars

(***************************************************************************)
(* getUpgradeVersion called on its own (it is exported).                   *)
(***************************************************************************)
\* Version strings with up to MaxPrefix leading range-prefix characters.
PrefixedVersions ==
    UNION { {pre \o <<Num(1)>> : pre \in [1..n -> RangePrefixChars]} : n \in 0..MaxPrefix }

FormatCandidates(i) ==
    { UpgradeOption(ComponentPackages[i], v, <<Num(2)>>, l, <<>>, NoPeerDependencies) :
        v \in PrefixedVersions, l \in BOOLEAN }

RECURSIVE FormatLists(_)
FormatLists(n) ==
    IF n = 0 THEN {<<>>}
    ELSE {Append(l, c) : l \in FormatLists(n - 1), c \in FormatCandidates(n)}

InitFormat ==
    /\ pc = "idle"
    /\ caller = "none"
    /\ isNextUIAll = FALSE
    /\ allDependencies = <<>>
    /\ store = [latestVersion |-> <<Num(MaxVer)>>, nextUIComponentsMap |-> <<>>]
    /\ \E n \in ListLengths : heap \in FormatLists(n)
    /\ upgradeOptionList = NewAddresses(<<>>, Len(heap))
    /\ FreshUpgrade
    /\ apc = "format_start"
    /\ packageInfo = <<>>
    /\ args = [all |-> FALSE, components |-> <<>>]
    /\ isExecute = "unasked"
    /\ isNeedRemove = "unasked"
    /\ ignoreList = {}
    /\ installLog = <<>>

\* Lines 96-153: getUpgradeVersion(upgradeOptionList, peer); the returned text
\* is kept as a box.
getUpgradeVersion_call ==
    /\ apc = "format_start"
    /\ \E peer \in BOOLEAN :
         LET r == getUpgradeVersion(upgradeOptionList, peer, heap)
         IN  /\ heap' = r.heap
             /\ report' = <<[title |-> "", text |-> r.text]>>
    /\ apc' = "format_done"
    /\ UNCHANGED <<pc, caller, isNextUIAll, allDependencies, store, upgradeOptionList,
                   tasks, settleOrder, outputList, peerDepList, result, packageInfo,
                   args, isExecute, isNeedRemove, ignoreList, installLog>>

NextFormat == getUpgradeVersion_call

SpecFormat == InitFormat /\ [][NextFormat]_vars

(***************************************************************************)
(* upgradeAction().                                                        *)
(***************************************************************************)
Component(i, version, peerDependencies) ==
    [name |-> ComponentNames[i], package |-> ComponentPackages[i], version |-> version,
     versionMode |-> <<"^">>, peerDependencies |-> peerDependencies]

\* getPackageInfo().currentComponents: the installed components.
CurrentComponentLists ==
    UNION { [1..n -> {<<Num(1)>>, <<Num(MaxVer)>>}] : n \in ListLengths }

\* store.nextUIComponentsMap: known for every component or not loaded.
ComponentsMaps ==
    { <<>>,
      [n \in Range(ComponentNames) |->
          [package |-> ComponentPackages[CHOOSE i \in 1..Len(ComponentNames) :
                                            ComponentNames[i] = n],
           version |-> <<Num(MaxVer)>>]] }

InitAction ==
    /\ pc = "idle"
    /\ caller = "upgradeAction"
    /\ isNextUIAll = FALSE
    /\ allDependencies \in DependencyMaps(TRUE) \cup DependencyMaps(FALSE)
    /\ WellFormedDependencies(allDependencies)
    /\ NEXT_UI \in DOMAIN allDependencies =>
          allDependencies[NEXT_UI] \in {<<"^", Num(1)>>, <<Num(MaxVer)>>}
    /\ store \in {[latestVersion |-> <<Num(MaxVer)>>, nextUIComponentsMap |-> m] :
                    m \in ComponentsMaps}
    /\ upgradeOptionList = <<>>
    /\ heap = <<>>
    /\ FreshUpgrade
    /\ apc = "start"
    /\ \E versions \in CurrentComponentLists :
          packageInfo = [currentComponents |->
                            [i \in 1..Len(versions) |->
                                Component(i, versions[i], NoPeerDependencies)]]
    /\ args \in {[all |-> a, components |-> c] :
                   a \in BOOLEAN, c \in {<<>>, <<"button">>, <<"bogus">>}}
    /\ isExecute = "unasked"
    /\ isNeedRemove = "unasked"
    /\ ignoreList = {}
    /\ installLog = <<>>

\* Lines 38-48: the components with their latest version and isLatest.
TransformComponents(cc, componentsMap, fetched) ==
    [i \in 1..Len(cc) |->
        LET latestVersion == IF cc[i].name \in DOMAIN componentsMap
                             THEN componentsMap[cc[i].name].version
                             ELSE fetched
        IN  UpgradeOption(cc[i].package, cc[i].version, latestVersion,
                          compareVersions(cc[i].version, latestVersion) >= 0,
                          cc[i].versionMode, cc[i].peerDependencies)]

\* Lines 86-92: component names become package names.
MapComponents(components, componentsMap) ==
    {IF c \in DOMAIN componentsMap THEN componentsMap[c].package ELSE c : c \in components}

\* Lines 28-101: upgradeAction up to its call of upgrade().  fetched is what
\* getLatestVersion answers, selected the answer to 'Select the components to
\* upgrade', legal the verdict of checkIllegalComponents.
upgradeAction_prepare ==
    /\ apc = "start"
    /\ \E fetched \in LatestVersions, legal \in BOOLEAN,
          selected \in SUBSET Range(ComponentPackages) :
         LET cc == packageInfo.currentComponents
             nextUIAll == NEXT_UI \in DOMAIN allDependencies
             tc == TransformComponents(cc, store.nextUIComponentsMap, fetched)
             selectable == {tc[i].package : i \in {j \in 1..Len(tc) :
                                                     tc[j].version # tc[j].latestVersion}}
             prompted == ~args.all /\ args.components = <<>>
             checked == ~args.all /\ args.components # <<>>
             components == IF args.all THEN {cc[i].package : i \in 1..Len(cc)}
                           ELSE IF prompted THEN selected
                           ELSE Range(args.components)
             chosen == MapComponents(components, store.nextUIComponentsMap)
             list == SelectSeq(tc, LAMBDA c : c.package \in chosen)
         IN  /\ prompted => selected \subseteq selectable
             /\ ~prompted => selected = {}
             /\ IF (Len(tc) = 0 /\ ~nextUIAll) \/ (checked /\ ~legal)
                THEN /\ apc' = "returned"
                     /\ UNCHANGED <<pc, isNextUIAll, heap, upgradeOptionList>>
                ELSE /\ apc' = "upgrading"
                     /\ pc' = "start"
                     /\ isNextUIAll' = nextUIAll
                     /\ heap' = list
                     /\ upgradeOptionList' = NewAddresses(<<>>, Len(list))
    /\ UNCHANGED <<caller, allDependencies, store, tasks, settleOrder, outputList,
                   peerDepList, report, result, packageInfo, args, isExecute,
                   isNeedRemove, ignoreList, installLog>>

\* Lines 97-104: upgrade() returned; with nothing to upgrade the command
\* reports success and exits (lines 159-162).
upgradeAction_returned ==
    /\ apc = "upgrading"
    /\ pc = "done"
    /\ apc' = IF result = <<>> THEN "exited" ELSE "ask_proceed"
    /\ UNCHANGED <<upgradeVars, caller, packageInfo, args, isExecute, isNeedRemove,
                   ignoreList, installLog>>

\* Line 97: upgrade() rejected and upgradeAction has no handler.
upgradeAction_threw ==
    /\ apc = "upgrading"
    /\ pc = "threw"
    /\ apc' = "threw"
    /\ UNCHANGED <<upgradeVars, caller, packageInfo, args, isExecute, isNeedRemove,
                   ignoreList, installLog>>

\* Lines 105-120: 'Would you like to proceed with the upgrade?'
upgradeAction_askProceed ==
    /\ apc = "ask_proceed"
    /\ \E answer \in BOOLEAN :
         /\ isExecute' = IF answer THEN "yes" ELSE "no"
         /\ apc' = IF answer THEN "install" ELSE "ask_ignore"
    /\ UNCHANGED <<upgradeVars, caller, packageInfo, args, isNeedRemove, ignoreList,
                   installLog>>

\* Lines 122-131: 'Do you want to ignore some package to upgrade?'
upgradeAction_askIgnore ==
    /\ apc = "ask_ignore"
    /\ \E answer \in BOOLEAN :
         /\ isNeedRemove' = IF answer THEN "yes" ELSE "no"
         /\ apc' = IF answer THEN "choose_ignore" ELSE "install"
    /\ UNCHANGED <<upgradeVars, caller, packageInfo, args, isExecute, ignoreList,
                   installLog>>

\* Lines 132-141: 'Which components do you want to ignore?'
upgradeAction_chooseIgnore ==
    /\ apc = "choose_ignore"
    /\ \E chosen \in SUBSET Range(Packages(result, heap)) : ignoreList' = chosen
    /\ apc' = "install"
    /\ UNCHANGED <<upgradeVars, caller, packageInfo, args, isExecute, isNeedRemove,
                   installLog>>

\* The package@version arguments of the install command (lines 151-155).
InstallArguments(list, h) ==
    [i \in 1..Len(list) |->
        [package |-> h[list[i]].package, version |-> StripColor(h[list[i]].latestVersion)]]

\* Lines 145-162: the ignored packages are removed, the install command is
\* executed, the command reports success and exits.
upgradeAction_install ==
    /\ apc = "install"
    /\ LET kept == SelectSeq(result, LAMBDA a : heap[a].package \notin ignoreList)
       IN  /\ result' = kept
           /\ installLog' = Append(installLog, InstallArguments(kept, heap))
    /\ apc' = "exited"
    /\ UNCHANGED <<pc, isNextUIAll, allDependencies, store, upgradeOptionList, heap,
                   tasks, settleOrder, outputList, peerDepList, report, caller,
                   packageInfo, args, isExecute, isNeedRemove, ignoreList>>

NextAction ==
    \/ upgradeNext
    \/ upgradeAction_prepare
    \/ upgradeAction_returned
    \/ upgradeAction_threw
    \/ upgradeAction_askProceed
    \/ upgradeAction_askIgnore
    \/ upgradeAction_chooseIgnore
    \/ upgradeAction_install

SpecAction == InitAction /\ [][NextAction]_vars

(***************************************************************************)
(* Properties of upgrade().                                                *)
(***************************************************************************)
Stale(list, h) == SelectSeq(list, LAMBDA a : ~h[a].isLatest)
Rank(version) == RankOf(Bare(version)[1])
\* The call that built the object at address a.
Owner(a) == CHOOSE i \in 1..Len(tasks) : a \in Range(tasks[i].result)

\* C1: in both modes every candidate of the list upgrade() returns has
\* isLatest = false.
C1_ResultOnlyStale ==
    pc = "done" => \A k \in 1..Len(result) : heap[result[k]].isLatest = FALSE

\* A multi-component run that returned candidates and left latest ones out,
\* a primary one and a peer.
C1_Witness ==
    /\ pc = "done"
    /\ ~isNextUIAll
    /\ result # <<>>
    /\ \E a \in Range(outputList) : heap[a].isLatest
    /\ \E a \in Range(peerDepList) : heap[a].isLatest

\* C2: in umbrella mode a stale umbrella package yields the umbrella candidate
\* followed by the stale peers of the umbrella package and then of the theme
\* package; an umbrella package that is already latest yields the empty list.
C2_UmbrellaResult ==
    (pc = "done" /\ isNextUIAll) =>
        IF Rank(allDependencies[NEXT_UI]) < Rank(store.latestVersion)
        THEN /\ result # <<>>
             /\ heap[result[1]].package = NEXT_UI
             /\ Tail(result) = Stale(tasks[1].result, heap) \o Stale(tasks[2].result, heap)
        ELSE result = <<>>

\* A stale umbrella package with a stale peer from each of the two lookups and
\* a latest peer that is left out.
C2_Witness ==
    /\ pc = "done"
    /\ isNextUIAll
    /\ Rank(allDependencies[NEXT_UI]) < Rank(store.latestVersion)
    /\ Stale(tasks[1].result, heap) # <<>>
    /\ Stale(tasks[2].result, heap) # <<>>
    /\ \E a \in Range(peerDepList) : heap[a].isLatest

\* C3: no list handed to the report formatter holds two candidates of the
\* same package.
C3_FormatterListsUnique ==
    report # <<>> =>
        /\ NoDuplicates(Packages(outputList, heap))
        /\ NoDuplicates(Packages(peerDepList, heap))

\* C4: a peer lookup that fails or returns unparseable data counts as zero
\* peers: the call returns the empty list and upgrade() does not fail.
C4_LookupFailureIsZeroPeers ==
    \A i \in 1..Len(tasks) :
        tasks[i].response.kind \in {"fail", "unparseable"} =>
            /\ tasks[i].status = "fulfilled"
            /\ tasks[i].result = <<>>
            /\ pc # "threw"

\* C5: within one getPackagePeerDep call a declared peer that is not installed
\* is not among the returned candidates and is warned about exactly once, and
\* the peers that are installed are all returned.
C5_MissingPeerSkipped ==
    \A i \in 1..Len(tasks) :
        tasks[i].status = "fulfilled" =>
            \A k \in 1..Len(tasks[i].peers) :
                LET name == tasks[i].peers[k].name
                IN  IF name \notin DOMAIN allDependencies
                    THEN /\ name \notin Range(Packages(tasks[i].result, heap))
                         /\ Cardinality({j \in 1..Len(tasks[i].warned) :
                                            tasks[i].warned[j] = name}) = 1
                    ELSE name \in Range(Packages(tasks[i].result, heap))

\* A call whose first declared peer is missing and whose second is installed.
C5_Witness ==
    \E i \in 1..Len(tasks) :
        /\ tasks[i].status = "fulfilled"
        /\ Len(tasks[i].peers) = 2
        /\ tasks[i].peers[1].name \notin DOMAIN allDependencies
        /\ tasks[i].peers[2].name \in DOMAIN allDependencies
        /\ Len(tasks[i].result) = 1

\* C6: in multi-component mode the peer list is made of the peers of every
\* primary candidate, those of an earlier candidate before those of a later
\* one, whatever the order in which the lookups completed.
C6_PeerListInPrimaryOrder ==
    (pc = "done" /\ ~isNextUIAll) =>
        /\ Len(tasks) = Len(upgradeOptionList)
        /\ \A i \in 1..Len(tasks) :
              tasks[i].packageName = heap[upgradeOptionList[i]].package
        /\ Range(peerDepList) = UNION {Range(tasks[i].result) : i \in 1..Len(tasks)}
        /\ NoDuplicates(peerDepList)
        /\ \A i \in 1..Len(tasks) :
              SelectSeq(peerDepList, LAMBDA a : a \in Range(tasks[i].result))
                  = tasks[i].result
        /\ \A p, q \in 1..Len(peerDepList) :
              p < q => Owner(peerDepList[p]) <= Owner(peerDepList[q])

\* The lookup of the second candidate completed before that of the first and
\* both found peers.
C6_Witness ==
    /\ pc = "done"
    /\ ~isNextUIAll
    /\ settleOrder = <<2, 1>>
    /\ tasks[1].result # <<>>
    /\ tasks[2].result # <<>>

\* C7: in multi-component mode every peer resolution is started before
\* upgrade() awaits, and nothing is reported or returned while one of them is
\* still pending.
C7_ReportAfterAllResolved ==
    ~isNextUIAll =>
        /\ pc \in {"await_all", "done"} => Len(tasks) = Len(upgradeOptionList)
        /\ (report # <<>> \/ pc = "done") =>
              \A i \in 1..Len(tasks) : tasks[i].status # "pending"

\* upgrade() waits: one lookup is back, another is pending, nothing reported.
C7_Witness ==
    /\ pc = "await_all"
    /\ \E i \in 1..Len(tasks) : tasks[i].status = "fulfilled" /\ tasks[i].response.kind = "json"
    /\ \E i \in 1..Len(tasks) : tasks[i].status = "pending"
    /\ report = <<>>

\* C8: no step of upgrade() changes the installed-dependency map, the known
\* latest version or an object of the caller's upgradeOptionList.
C8_CallerStateUnchanged ==
    [][ /\ allDependencies' = allDependencies
        /\ store' = store
        /\ upgradeOptionList' = upgradeOptionList
        /\ \A k \in 1..Len(upgradeOptionList) :
              heap'[upgradeOptionList[k]] = heap[upgradeOptionList[k]] ]_vars

\* The copy of a candidate was normalized and rewritten, the caller's object
\* still holds the version and latestVersion it came with.
C8_Witness ==
    /\ pc = "done"
    /\ ~isNextUIAll
    /\ \E k \in 1..Len(upgradeOptionList) :
          /\ heap[outputList[k]].version # heap[upgradeOptionList[k]].version
          /\ heap[outputList[k]].latestVersion # heap[upgradeOptionList[k]].latestVersion

(***************************************************************************)
(* Properties of getUpgradeVersion and of upgradeAction.                   *)
(***************************************************************************)
\* C9: after getUpgradeVersion has processed a list, the version of every
\* candidate starts with at most one range-prefix character.
C9_AtMostOnePrefix ==
    apc = "format_done" =>
        \A k \in 1..Len(upgradeOptionList) :
            LeadingCount(heap[upgradeOptionList[k]].version, RangePrefixChars) <= 1

\* C10: the install command is executed only after the user confirmed the
\* upgrade or chose packages to ignore; after 'No' and 'No' it is not executed.
C10_NoInstallAfterDecline ==
    /\ (isExecute = "no" /\ isNeedRemove = "no") => installLog = <<>>
    /\ installLog # <<>> => (isExecute = "yes" \/ isNeedRemove = "yes")

====
